---- MODULE Spec2Model ----
(***************************************************************************)
(* Model of the playerctl wrapper (src/src/lib.rs): every public operation *)
(* of Playerctl formats a command line, runs the external `playerctl`      *)
(* program through run_command and interprets the captured exit status,    *)
(* stdout and stderr.                                                      *)
(*                                                                         *)
(* Text is a sequence of UTF-8 code units.  An ASCII code unit is written  *)
(* as the one-character string of its character; any other code unit NN    *)
(* (hexadecimal) is written "xNN".                                         *)
(***************************************************************************)
EXTENDS Integers, Sequences, FiniteSets, TLC

----------------------------------------------------------------------------
(* Code units *)

Printable ==
    <<" ", "!", "\"", "#", "$", "%", "&", "'", "(", ")", "*", "+", ",", "-", ".", "/", "0", "1", "2", "3", "4", "5", "6", "7", "8", "9", ":", ";", "<", "=", ">", "?", "@", "A", "B", "C", "D", "E", "F", "G", "H", "I", "J", "K", "L", "M", "N", "O", "P", "Q", "R", "S", "T", "U", "V", "W", "X", "Y", "Z", "[", "\\", "]", "^", "_", "x60", "a", "b", "c", "d", "e", "f", "g", "h", "i", "j", "k", "l", "m", "n", "o", "p", "q", "r", "s", "t", "u", "v", "w", "x", "y", "z", "{", "|", "}", "~">>

HexDigit ==
    <<"0", "1", "2", "3", "4", "5", "6", "7", "8", "9", "A", "B", "C", "D", "E", "F">>

\* The code unit with value n (0..255).
Chr(n) ==
    IF n \in 32..126 THEN Printable[n - 31]
    ELSE IF n = 9 THEN "\t"
    ELSE IF n = 10 THEN "\n"
    ELSE IF n = 12 THEN "\f"
    ELSE IF n = 13 THEN "\r"
    ELSE "x" \o HexDigit[(n \div 16) + 1] \o HexDigit[(n % 16) + 1]

Units == {Chr(n) : n \in 0..255}

OrdTable == [c \in Units |-> CHOOSE n \in 0..255 : Chr(n) = c]

\* The value of code unit c.
Ord(c) == OrdTable[c]
----------------------------------------------------------------------------
(* Options and maps *)

\* Option<T>: None is the empty sequence, Some(v) the sequence holding v.
None == <<>>
Some(v) == <<v>>
IsSome(o) == Len(o) = 1
Unwrap(o) == o[1]

\* HashMap::new()
EmptyMap == [k \in {} |-> k]

\* HashMap::insert: the entry of key k is set to v, replacing an earlier one.
MapInsert(map, k, v) ==
    [x \in (DOMAIN map) \cup {k} |-> IF x = k THEN v ELSE map[x]]

----------------------------------------------------------------------------
(* str primitives of the standard library used by lib.rs *)

Drop(s, n) == SubSeq(s, n + 1, Len(s))
Take(s, n) == SubSeq(s, 1, n)
IsPrefix(p, s) == Len(p) <= Len(s) /\ Take(s, Len(p)) = p
IsSuffix(p, s) == Len(p) <= Len(s) /\ Drop(s, Len(s) - Len(p)) = p

\* char::is_whitespace: the code points with the White_Space property, in UTF-8.
WhiteSpace ==
    { <<"\t">>, <<"\n">>, <<"x0B">>, <<"\f">>, <<"\r">>, <<" ">>,
      <<"xC2", "x85">>, <<"xC2", "xA0">>, <<"xE1", "x9A", "x80">>,
      <<"xE2", "x80", "xA8">>, <<"xE2", "x80", "xA9">>, <<"xE2", "x80", "xAF">>,
      <<"xE2", "x81", "x9F">>, <<"xE3", "x80", "x80">> }
    \cup { <<"xE2", "x80", Chr(n)>> : n \in 128..138 }

\* u8::is_ascii_whitespace: space, tab, line feed, form feed, carriage return.
AsciiWhiteSpace == {" ", "\t", "\n", "\f", "\r"}

RECURSIVE TrimStart(_)
TrimStart(s) ==
    IF \E w \in WhiteSpace : IsPrefix(w, s)
    THEN TrimStart(Drop(s, Len(CHOOSE w \in WhiteSpace : IsPrefix(w, s))))
    ELSE s

RECURSIVE TrimEnd(_)
TrimEnd(s) ==
    IF \E w \in WhiteSpace : IsSuffix(w, s)
    THEN TrimEnd(Take(s, Len(s) - Len(CHOOSE w \in WhiteSpace : IsSuffix(w, s))))
    ELSE s

\* str::trim
trim(s) == TrimEnd(TrimStart(s))

\* str::trim_ascii_start
RECURSIVE trim_ascii_start(_)
trim_ascii_start(s) ==
    IF s # <<>> /\ Head(s) \in AsciiWhiteSpace THEN trim_ascii_start(Tail(s)) ELSE s

\* str::find: the index of the first occurrence of pat in s, 0 when there is none.
Find(s, pat) ==
    LET hits == {i \in 1..(Len(s) - Len(pat) + 1) : SubSeq(s, i, i + Len(pat) - 1) = pat}
    IN  IF hits = {} THEN 0 ELSE CHOOSE i \in hits : \A j \in hits : i <= j

\* str::split_once: Some(<<before, after>>) around the first occurrence of pat.
split_once(s, pat) ==
    LET i == Find(s, pat)
    IN  IF i = 0 THEN None
        ELSE Some(<<Take(s, i - 1), Drop(s, i + Len(pat) - 1)>>)

\* str::lines: split at "\n", a "\r" right before it belongs to the line ending;
\* no empty last line after a final "\n".
RECURSIVE lines(_)
lines(s) ==
    IF s = <<>> THEN <<>>
    ELSE LET i == Find(s, <<"\n">>)
         IN  IF i = 0 THEN <<s>>
             ELSE LET l == Take(s, i - 1)
                  IN  <<IF IsSuffix(<<"\r">>, l) THEN Take(l, Len(l) - 1) ELSE l>>
                          \o lines(Drop(s, i))

\* str::split_whitespace: the maximal runs of non-whitespace, in order.
RECURSIVE SplitWs(_, _)
SplitWs(s, cur) ==
    IF s = <<>> THEN (IF cur = <<>> THEN <<>> ELSE <<cur>>)
    ELSE IF \E w \in WhiteSpace : IsPrefix(w, s)
    THEN (IF cur = <<>> THEN <<>> ELSE <<cur>>)
             \o SplitWs(Drop(s, Len(CHOOSE w \in WhiteSpace : IsPrefix(w, s))), <<>>)
    ELSE SplitWs(Tail(s), Append(cur, Head(s)))

split_whitespace(s) == SplitWs(s, <<>>)

----------------------------------------------------------------------------
(* UTF-8 *)

\* The number of code units of the sequence a lead unit of value b starts; 0 when
\* b starts none.
Utf8Width(b) ==
    IF b < 128 THEN 1
    ELSE IF b \in 194..223 THEN 2
    ELSE IF b \in 224..239 THEN 3
    ELSE IF b \in 240..244 THEN 4
    ELSE 0

\* The values allowed for the unit that follows lead unit b.
Utf8Second(b) ==
    IF b = 224 THEN 160..191
    ELSE IF b = 237 THEN 128..159
    ELSE IF b = 240 THEN 144..191
    ELSE IF b = 244 THEN 128..143
    ELSE 128..191

\* How many units at the head of s form the longest prefix of a well-formed
\* sequence (s is not empty; at least 1).
Utf8Prefix(s) ==
    LET b == Ord(s[1])
        w == Utf8Width(b)
        okAt(i) == /\ i <= Len(s)
                   /\ Ord(s[i]) \in (IF i = 2 THEN Utf8Second(b) ELSE 128..191)
        good == {n \in 1..w : \A i \in 2..n : okAt(i)}
    IN  IF w = 0 THEN 1 ELSE CHOOSE n \in good : \A k \in good : k <= n

\* Whether a whole well-formed sequence stands at the head of s.
Utf8Whole(s) == Utf8Width(Ord(s[1])) # 0 /\ Utf8Prefix(s) = Utf8Width(Ord(s[1]))

\* String::from_utf8(bytes).is_ok()
RECURSIVE Utf8Valid(_)
Utf8Valid(s) ==
    IF s = <<>> THEN TRUE
    ELSE Utf8Whole(s) /\ Utf8Valid(Drop(s, Utf8Prefix(s)))

\* U+FFFD REPLACEMENT CHARACTER
Replacement == <<"xEF", "xBF", "xBD">>

\* String::from_utf8_lossy: each ill-formed maximal prefix becomes U+FFFD.
RECURSIVE from_utf8_lossy(_)
from_utf8_lossy(s) ==
    IF s = <<>> THEN <<>>
    ELSE (IF Utf8Whole(s) THEN Take(s, Utf8Prefix(s)) ELSE Replacement)
             \o from_utf8_lossy(Drop(s, Utf8Prefix(s)))
----------------------------------------------------------------------------
(* Numbers *)

DecDigit == <<"0", "1", "2", "3", "4", "5", "6", "7", "8", "9">>
DecDigits == {DecDigit[i] : i \in 1..10}

\* u64::MAX, 2^64 - 1, in decimal.
U64Max ==
    <<"1", "8", "4", "4", "6", "7", "4", "4", "0", "7", "3", "7", "0", "9", "5", "5", "1", "6", "1", "5">>

\* A decimal numeral without its leading zeros (the numeral of the same number).
RECURSIVE Numeral(_)
Numeral(d) == IF Len(d) > 1 /\ Head(d) = "0" THEN Numeral(Tail(d)) ELSE d

\* Whether numeral a (no leading zeros) denotes a number above numeral b.
NumeralAbove(a, b) ==
    \/ Len(a) > Len(b)
    \/ /\ Len(a) = Len(b)
       /\ \E i \in 1..Len(a) :
             /\ Ord(a[i]) > Ord(b[i])
             /\ \A j \in 1..(i - 1) : a[j] = b[j]

ParseOk(v) == [ok |-> TRUE, val |-> v]
ParseErr(e) == [ok |-> FALSE, err |-> e]

\* The digit loop of u64::from_str_radix(_, 10): acc is the numeral read so far.
RECURSIVE ParseDigits(_, _)
ParseDigits(s, acc) ==
    IF s = <<>> THEN ParseOk(acc)
    ELSE IF Head(s) \notin DecDigits THEN ParseErr("InvalidDigit")
    ELSE LET acc2 == Numeral(Append(acc, Head(s)))
         IN  IF NumeralAbove(acc2, U64Max) THEN ParseErr("PosOverflow")
             ELSE ParseDigits(Tail(s), acc2)

\* <u64 as FromStr>::from_str: an optional "+", then digits; the value is given
\* as its decimal numeral.
parse_u64(s) ==
    IF s = <<>> THEN ParseErr("Empty")
    ELSE IF s = <<"+">> \/ s = <<"-">> THEN ParseErr("InvalidDigit")
    ELSE IF Head(s) = "+" THEN ParseDigits(Tail(s), <<"0">>)
    ELSE ParseDigits(s, <<"0">>)

\* The decimal numeral of natural number n.
RECURSIVE Dec(_)
Dec(n) == IF n < 10 THEN <<DecDigit[n + 1]>> ELSE Append(Dec(n \div 10), DecDigit[(n % 10) + 1])

\* An f32: its class, its sign bit, and for a finite value its magnitude in
\* quarters (the magnitudes k/4 are exact in binary floating point).
F32(class, neg, quarters) == [class |-> class, neg |-> neg, quarters |-> quarters]

\* secs < 0. : false for both zeros and for NaN.
LtZero(x) ==
    /\ x.class # "nan"
    /\ x.neg
    /\ ~(x.class = "finite" /\ x.quarters = 0)

\* -secs : the sign bit flipped.
Negate(x) == [x EXCEPT !.neg = ~x.neg]

\* The fractional digits of k quarters.
Fraction(k) ==
    IF k = 0 THEN <<>>
    ELSE IF k = 1 THEN <<".", "2", "5">>
    ELSE IF k = 2 THEN <<".", "5">>
    ELSE <<".", "7", "5">>

\* <f32 as Display>::fmt: "NaN" without sign; otherwise "-" when the sign bit is
\* set (negative zero included), then "inf" or the shortest decimal.
DisplayF32(x) ==
    IF x.class = "nan" THEN <<"N", "a", "N">>
    ELSE (IF x.neg THEN <<"-">> ELSE <<>>)
             \o (IF x.class = "inf" THEN <<"i", "n", "f">>
                 ELSE Dec(x.quarters \div 4) \o Fraction(x.quarters % 4))

----------------------------------------------------------------------------
(* Percent-decoding (urlencoding::decode, as called by metadata) *)

\* from_hex_digit: the value of a hexadecimal digit, -1 for any other unit.
from_hex_digit(c) ==
    LET n == Ord(c)
    IN  IF n \in 48..57 THEN n - 48
        ELSE IF n \in 65..70 THEN n - 55
        ELSE IF n \in 97..102 THEN n - 87
        ELSE -1

\* decode_binary: "%" followed by two hexadecimal digits becomes the unit of
\* that value; a "%" followed by anything else is kept as it is.
RECURSIVE decode_binary(_)
decode_binary(s) ==
    IF s = <<>> THEN <<>>
    ELSE IF Head(s) # "%" THEN <<Head(s)>> \o decode_binary(Tail(s))
    ELSE LET rest == Tail(s)
         IN  IF Len(rest) < 2 THEN <<"%">> \o rest
             ELSE IF from_hex_digit(rest[1]) = -1 THEN <<"%">> \o decode_binary(rest)
             ELSE IF from_hex_digit(rest[2]) = -1
                  THEN <<"%", rest[1]>> \o decode_binary(Tail(rest))
             ELSE <<Chr(16 * from_hex_digit(rest[1]) + from_hex_digit(rest[2]))>>
                      \o decode_binary(Drop(rest, 2))

\* urlencoding::decode: the decoded units, which must be well-formed UTF-8.
decode(s) ==
    LET bytes == decode_binary(s)
    IN  IF Utf8Valid(bytes) THEN [ok |-> TRUE, val |-> bytes]
        ELSE [ok |-> FALSE, err |-> "FromUtf8Error"]
----------------------------------------------------------------------------
(* Results *)

\* Ok(v) and the variants of PlayerctlError, each with what it carries.
Ok(v) == [kind |-> "Ok", val |-> v]
Err(kind, carried) == [kind |-> kind, val |-> carried]

\* ()
Unit == <<>>

\* PlayerMetadata::default()
DefaultMetadata ==
    [ mpris_trackid |-> None, mpris_art_url |-> None, mpris_length |-> None,
      xesam_title |-> None, xesam_album |-> None, xesam_artist |-> None,
      xesam_album_artist |-> None, xesam_url |-> None,
      xesam_content_created |-> None, raw |-> EmptyMap ]

----------------------------------------------------------------------------
(* The external program: what one invocation of `playerctl` can come to *)

\* An ExitStatus: exited with code n, or killed by signal n.
Exited(n) == [signal |-> FALSE, n |-> n]
Signaled(n) == [signal |-> TRUE, n |-> n]

\* ExitStatus::success
success(st) == ~st.signal /\ st.n = 0

\* <ExitStatus as Display>::fmt
DisplayStatus(st) ==
    IF st.signal
    THEN <<"s", "i", "g", "n", "a", "l", ":", " ">> \o Dec(st.n)
             \o <<" ", "(", "S", "I", "G", "K", "I", "L", "L", ")">>
    ELSE <<"e", "x", "i", "t", " ", "s", "t", "a", "t", "u", "s", ":", " ">> \o Dec(st.n)

\* Command::output() failed: the program could not be started.
IoFailure == [io |-> TRUE, status |-> Exited(0), stdout |-> <<>>, stderr |-> <<>>]

\* Command::output() returned: the program ran to its end.
Completed(st, out, err) == [io |-> FALSE, status |-> st, stdout |-> out, stderr |-> err]

Statuses == {Exited(0), Exited(1), Signaled(9)}

NoPlayersFound ==
    <<"N", "o", " ", "p", "l", "a", "y", "e", "r", "s", " ", "f", "o", "u", "n", "d">>

\* Captured stderr: nothing, playerctl's message, and bytes that are not UTF-8.
Stderrs == {<<>>, NoPlayersFound \o <<"\n">>, <<"e", "xFF", "r">>}

\* The invocations a call can meet: a failure to start, a success with one of
\* okOut on stdout, or a non-success status with one of failOut on stdout.
Outcomes(okOut, failOut) ==
    {IoFailure}
      \cup {Completed(Exited(0), o, <<>>) : o \in okOut}
      \cup {Completed(st, o, e) : st \in Statuses \ {Exited(0)}, o \in failOut, e \in Stderrs}

\* The stdout made of the given lines, each ended by a line feed.
RECURSIVE StdoutOf(_)
StdoutOf(ls) == IF ls = <<>> THEN <<>> ELSE Head(ls) \o <<"\n">> \o StdoutOf(Tail(ls))

\* Every stdout of at most n lines drawn from palette.
Stdouts(palette, n) == {StdoutOf(ls) : ls \in UNION {[1..k -> palette] : k \in 0..n}}

----------------------------------------------------------------------------
(* run_command *)

CommandFailed ==
    <<"C", "o", "m", "m", "a", "n", "d", " ", "f", "a", "i", "l", "e", "d", " ", "w", "i", "t", "h", " ", "s", "t", "a", "t", "u", "s", " ">>

\* run_command without the test of output.status.success(): stdout is taken
\* whatever the exit status.
run_command_unchecked(command, out) ==
    IF out.io THEN Err("IoError", <<>>)
    ELSE Ok(trim(from_utf8_lossy(out.stdout)))

\* run_command(command) when the invocation comes to `out`: the io error, the
\* trimmed stdout, or CommandError with the status and stderr in its message.
run_command(command, out) ==
    IF out.io THEN Err("IoError", <<>>)
    ELSE IF success(out.status) THEN Ok(trim(from_utf8_lossy(out.stdout)))
    ELSE Err("CommandError",
             CommandFailed \o DisplayStatus(out.status) \o <<":", " ">>
                 \o from_utf8_lossy(out.stderr))
----------------------------------------------------------------------------
(* The pure parts of the public operations *)

\* position(secs): the command line format!() builds.
position_format(secs) ==
    IF LtZero(secs)
    THEN <<"p", "o", "s", "i", "t", "i", "o", "n", " ">> \o DisplayF32(Negate(secs)) \o <<"-">>
    ELSE <<"p", "o", "s", "i", "t", "i", "o", "n", " ">> \o DisplayF32(secs) \o <<"+">>

\* volume(percent): the command line format!() builds.
volume_format(percent) ==
    IF LtZero(percent)
    THEN <<"v", "o", "l", "u", "m", "e", " ">> \o DisplayF32(Negate(percent)) \o <<"-">>
    ELSE <<"v", "o", "l", "u", "m", "e", " ">> \o DisplayF32(percent) \o <<"+">>

\* status_match taking a text that starts with the word for the word
\* (starts_with in place of the match on the whole text).
status_match_starts_with(text) ==
    IF IsPrefix(<<"P", "l", "a", "y", "i", "n", "g">>, trim(text)) THEN Ok("Playing")
    ELSE IF IsPrefix(<<"P", "a", "u", "s", "e", "d">>, trim(text)) THEN Ok("Paused")
    ELSE Ok("Stopped")

\* status(): the match on the trimmed text.
status_match(text) ==
    IF trim(text) = <<"P", "l", "a", "y", "i", "n", "g">> THEN Ok("Playing")
    ELSE IF trim(text) = <<"P", "a", "u", "s", "e", "d">> THEN Ok("Paused")
    ELSE Ok("Stopped")

PositionDelimiter == <<";", "-", ";">>

\* get_position_line keeping the entry a name already has (first write wins).
get_position_line_first_wins(map, line) ==
    LET parts == split_once(line, PositionDelimiter)
    IN  IF ~IsSome(parts) THEN [step |-> "continue", map |-> map]
        ELSE LET name == Unwrap(parts)[1]
                 pos == parse_u64(Unwrap(parts)[2])
             IN  IF pos.ok
                 THEN [step |-> "insert",
                       map |-> IF name \in DOMAIN map THEN map
                               ELSE MapInsert(map, name, pos.val)]
                 ELSE [step |-> "return", err |-> Err("ParseLengthError", pos.err)]

\* One turn of the loop of get_position(): "continue" for a line without the
\* delimiter, "insert" with the map after m.insert, "return" with the error
\* the `?` leaves with.
get_position_line(map, line) ==
    LET parts == split_once(line, PositionDelimiter)
    IN  IF ~IsSome(parts) THEN [step |-> "continue", map |-> map]
        ELSE LET name == Unwrap(parts)[1]
                 pos == parse_u64(Unwrap(parts)[2])
             IN  IF pos.ok
                 THEN [step |-> "insert", map |-> MapInsert(map, name, pos.val)]
                 ELSE [step |-> "return", err |-> Err("ParseLengthError", pos.err)]

K_artUrl == <<"m", "p", "r", "i", "s", ":", "a", "r", "t", "U", "r", "l">>
K_length == <<"m", "p", "r", "i", "s", ":", "l", "e", "n", "g", "t", "h">>
K_trackid == <<"m", "p", "r", "i", "s", ":", "t", "r", "a", "c", "k", "i", "d">>
K_album == <<"x", "e", "s", "a", "m", ":", "a", "l", "b", "u", "m">>
K_albumArtist == <<"x", "e", "s", "a", "m", ":", "a", "l", "b", "u", "m", "A", "r", "t", "i", "s", "t">>
K_artist == <<"x", "e", "s", "a", "m", ":", "a", "r", "t", "i", "s", "t">>
K_contentCreated == <<"x", "e", "s", "a", "m", ":", "c", "o", "n", "t", "e", "n", "t", "C", "r", "e", "a", "t", "e", "d">>
K_title == <<"x", "e", "s", "a", "m", ":", "t", "i", "t", "l", "e">>
K_url == <<"x", "e", "s", "a", "m", ":", "u", "r", "l">>

\* "mpris:artUrl" => map.mpris_art_url = Some(urlencoding::decode(&val)?.into_owned())
arm_art_url(rec, val) ==
    IF decode(val).ok
    THEN [ok |-> TRUE, rec |-> [rec EXCEPT !.mpris_art_url = Some(decode(val).val)]]
    ELSE [ok |-> FALSE, err |-> Err("ParseUrlError", decode(val).err)]

\* The arm of mpris:length leaving the field unset when the value does not
\* parse (val.parse().ok() in place of Some(val.parse()?)).
arm_length_defaulted(rec, val) ==
    [ok |-> TRUE,
     rec |-> [rec EXCEPT !.mpris_length =
                  IF parse_u64(val).ok THEN Some(parse_u64(val).val) ELSE None]]

\* "mpris:length" => map.mpris_length = Some(val.parse()?)
arm_length(rec, val) ==
    IF parse_u64(val).ok
    THEN [ok |-> TRUE, rec |-> [rec EXCEPT !.mpris_length = Some(parse_u64(val).val)]]
    ELSE [ok |-> FALSE, err |-> Err("ParseLengthError", parse_u64(val).err)]

\* "xesam:url" => map.xesam_url = Some(urlencoding::decode(&val)?.into_owned())
arm_url(rec, val) ==
    IF decode(val).ok
    THEN [ok |-> TRUE, rec |-> [rec EXCEPT !.xesam_url = Some(decode(val).val)]]
    ELSE [ok |-> FALSE, err |-> Err("ParseUrlError", decode(val).err)]

\* The last arm binding the value to the title (`_ =>` put on the wrong arm).
arm_other_as_title(rec, val) == [ok |-> TRUE, rec |-> [rec EXCEPT !.xesam_title = Some(val)]]

\* _ => {}
arm_other(rec, val) == [ok |-> TRUE, rec |-> rec]

\* `match key` in metadata(): the record with the typed field of the key set,
\* or the error the `?` of the arm leaves with.
metadata_match(rec, key, val) ==
    IF key = K_artUrl THEN arm_art_url(rec, val)
    ELSE IF key = K_length THEN arm_length(rec, val)
    ELSE IF key = K_trackid
    THEN [ok |-> TRUE, rec |-> [rec EXCEPT !.mpris_trackid = Some(val)]]
    ELSE IF key = K_album
    THEN [ok |-> TRUE, rec |-> [rec EXCEPT !.xesam_album = Some(val)]]
    ELSE IF key = K_albumArtist
    THEN [ok |-> TRUE, rec |-> [rec EXCEPT !.xesam_album_artist = Some(val)]]
    ELSE IF key = K_artist
    THEN [ok |-> TRUE, rec |-> [rec EXCEPT !.xesam_artist = Some(val)]]
    ELSE IF key = K_contentCreated
    THEN [ok |-> TRUE, rec |-> [rec EXCEPT !.xesam_content_created = Some(val)]]
    ELSE IF key = K_title
    THEN [ok |-> TRUE, rec |-> [rec EXCEPT !.xesam_title = Some(val)]]
    ELSE IF key = K_url THEN arm_url(rec, val)
    ELSE arm_other(rec, val)

\* raw.insert keeping the value a key already has (entry(key).or_insert(val)).
raw_insert_if_absent(rec, key, val) ==
    IF key \in DOMAIN rec.raw THEN rec ELSE [rec EXCEPT !.raw = MapInsert(rec.raw, key, val)]

\* map.raw.insert(key, val)
raw_insert(rec, key, val) == [rec EXCEPT !.raw = MapInsert(rec.raw, key, val)]

\* metadata_split without trim_ascii_start on the rest of the line.
metadata_split_untrimmed(line) ==
    LET first == split_once(line, <<" ">>)
    IN  IF ~IsSome(first) THEN None
        ELSE LET second == split_once(Unwrap(first)[2], <<" ">>)
             IN  IF ~IsSome(second) THEN None
                 ELSE Some(<<Unwrap(first)[1], Unwrap(second)[1],
                             trim_ascii_start(Unwrap(second)[2])>>)

\* The two split_once of a line of metadata(): Some(<<player, key, val>>), or None
\* for a line that fails either of them.
metadata_split(line) ==
    LET first == split_once(line, <<" ">>)
    IN  IF ~IsSome(first) THEN None
        ELSE LET b == trim_ascii_start(Unwrap(first)[2])
                 second == split_once(b, <<" ">>)
             IN  IF ~IsSome(second) THEN None
                 ELSE Some(<<Unwrap(first)[1], Unwrap(second)[1],
                             trim_ascii_start(Unwrap(second)[2])>>)

\* data.entry(player).or_default()
entry_or_default(map, player) ==
    IF player \in DOMAIN map THEN map[player] ELSE DefaultMetadata

\* One turn of the loop of metadata(): "continue" for a line that fails a split,
\* "insert" with the map after the typed field and the raw pair are set,
\* "return" with the error the `?` leaves with.
metadata_line(map, line) ==
    LET parts == metadata_split(line)
    IN  IF ~IsSome(parts) THEN [step |-> "continue", map |-> map]
        ELSE LET player == Unwrap(parts)[1]
                 key == Unwrap(parts)[2]
                 val == Unwrap(parts)[3]
                 typed == metadata_match(entry_or_default(map, player), key, val)
             IN  IF typed.ok
                 THEN [step |-> "insert",
                       map |-> MapInsert(map, player, raw_insert(typed.rec, key, val))]
                 ELSE [step |-> "return", err |-> typed.err]

\* The loop of metadata() over the lines ls, from the map it has built so far.
RECURSIVE metadata_fold(_, _)
metadata_fold(map, ls) ==
    IF ls = <<>> THEN Ok(map)
    ELSE IF metadata_line(map, Head(ls)).step = "return"
    THEN metadata_line(map, Head(ls)).err
    ELSE metadata_fold(metadata_line(map, Head(ls)).map, Tail(ls))
----------------------------------------------------------------------------
(* Bounds and the inputs drawn within them *)

\* The largest magnitude of a seek offset or volume delta, in quarters.
MaxQuarters == 41

\* The largest number of lines playerctl writes to stdout.
MaxLines == 2

\* The f32 arguments: both zeros, the finite values up to the bound, both
\* infinities and NaN with either sign bit.
Floats ==
    {F32("finite", neg, q) : neg \in BOOLEAN, q \in 0..MaxQuarters}
      \cup {F32(c, neg, 0) : c \in {"inf", "nan"}, neg \in BOOLEAN}

\* What a command that prints nothing of interest leaves on stdout.
UnitStdouts == {<<>>, <<"o", "k", "\n">>}

\* What `playerctl status` may print, and texts around it.
StatusStdouts ==
    { <<>>, <<"\n">>,
      <<"P", "l", "a", "y", "i", "n", "g", "\n">>,
      <<"P", "a", "u", "s", "e", "d", "\n">>,
      <<"P", "a", "u", "s", "e", "d">>,
      <<"S", "t", "o", "p", "p", "e", "d", "\n">>,
      <<"p", "l", "a", "y", "i", "n", "g", "\n">>,
      <<"P", "A", "U", "S", "E", "D", "\n">>,
      <<" ", "\t", "P", "l", "a", "y", "i", "n", "g", " ", "\r", "\n">>,
      <<"xC2", "xA0", "P", "a", "u", "s", "e", "d", "xE2", "x80", "x83">>,
      <<"P", "l", "a", "y", "i", "n", "g", " ", "x", "\n">>,
      <<"P", "l", "a", "y", "i", "n", "g", "\n", "P", "a", "u", "s", "e", "d", "\n">>,
      <<"P", "l", "a", "y", " ", "i", "n", "g", "\n">>,
      <<"P", "a", "u", "s", "e", "\n">>,
      <<"F", "o", "o">>,
      <<"xFF", "P", "l", "a", "y", "i", "n", "g">> }

\* Lines of the output of `status -a -f {{playerName}};-;{{position}}`.
PositionLines ==
    { <<"p", ";", "-", ";", "1", "2">>,
      <<"q", ";", "-", ";", "7">>,
      <<"p", ";", "-", ";", "5">>,
      <<"p", ";", "-", ";", "0", "8">>,
      <<"q", ";", "-", ";", "+", "5">>,
      <<"p", ";", "-", ";", "x">>,
      <<"q", ";", "-", ";">>,
      <<"p", ";", "-", ";", "-", "1">>,
      <<"p", ";", "-", ";", "1", ";", "-", ";", "2">>,
      <<" ", "p", ";", "-", ";", "3">>,
      <<"q", ";", "-", ";", "4", " ">>,
      <<"q", ";", "-", ";", "7", "\r">>,
      <<";", "-", ";", "9">>,
      <<"j", "u", "n", "k">>,
      <<>>,
      <<"q", ";", "-", ";">> \o U64Max,
      <<"p", ";", "-", ";">> \o Take(U64Max, 19) \o <<"6">> }

SP == <<" ">>

\* Lines of the output of `metadata -a`.
MetadataLines ==
    { <<"p">> \o SP \o K_length \o SP \o <<"1", "2">>,
      <<"q">> \o SP \o K_length \o SP \o <<"7">>,
      <<"p">> \o SP \o K_length \o SP \o <<"x">>,
      <<"p">> \o SP \o K_length,
      <<"p">> \o SP \o K_title \o SP \o <<"a", " ", "b">>,
      <<"p">> \o SP \o K_title \o SP \o <<"c">>,
      <<"q">> \o SP \o K_title \o SP \o <<"c">>,
      <<"p">> \o SP \o K_url \o SP \o <<"a", "%", "2", "0", "b">>,
      <<"p">> \o SP \o K_url \o SP \o <<"a", "%", "2">>,
      <<"q">> \o SP \o K_url \o SP \o <<"%", "C", "3", "%", "A", "9">>,
      <<"q">> \o SP \o K_artUrl \o SP \o <<"%", "F", "F">>,
      <<"p">> \o SP \o K_artUrl \o SP \o <<"%", "4", "1">>,
      <<"p">> \o SP \o K_artUrl \o SP \o <<"%", "z">>,
      <<"p">> \o SP \o K_trackid \o SP \o <<"/", "1">>,
      <<"p">> \o SP \o SP \o K_album \o SP \o SP \o <<"x">>,
      <<"p">> \o SP \o K_albumArtist \o SP \o <<"z">>,
      <<"p">> \o SP \o K_artist \o SP \o <<"y">>,
      <<"p">> \o SP \o K_contentCreated \o SP \o <<"2", "0", "1", "8">>,
      <<"p", " ", "f", "o", "o", " ", "v">>,
      <<"p", " ", "f", "o", "o", " ", "w">>,
      <<"q", " ", "f", "o", "o", " ", "%", "F", "F">>,
      <<"p", " ", "f", "o", "o", " ">>,
      <<"q", " ", "\t", "f", "o", "o", " ", "\t", "v", " ">>,
      <<" ", "q", " ", "f", "o", "o", " ", "v">>,
      <<"j", "u", "n", "k">>,
      <<>> }

----------------------------------------------------------------------------
(* The state *)

VARIABLES
    pc,        \* "idle", inside the loop of "get_position" or "metadata", or "done"
    op,        \* the public operation called
    input,     \* its f32 argument: Some(x), or None
    args,      \* the arguments given to Command::new("playerctl")
    captured,  \* what the invocation came to
    scan,      \* the lines of the output the loop goes, or went, through
    idx,       \* the index of the line the loop is at
    m,         \* get_position(): the local map m
    data,      \* metadata(): the local map data
    result     \* what the operation returned

vars == <<pc, op, input, args, captured, scan, idx, m, data, result>>

Init ==
    /\ pc = "idle"
    /\ op = "none"
    /\ input = None
    /\ args = <<>>
    /\ captured = IoFailure
    /\ scan = <<>>
    /\ idx = 0
    /\ m = EmptyMap
    /\ data = EmptyMap
    /\ result = Ok(Unit)

\* The maps and the index of the loops do not exist outside them.
NoLoop == idx' = 0 /\ m' = EmptyMap /\ data' = EmptyMap

\* A call that is one run_command and returns () on success.
UnitCall(name, arg, command) ==
    /\ \E out \in Outcomes(UnitStdouts, UnitStdouts) :
          /\ captured' = out
          /\ result' = IF run_command(command, out).kind = "Ok" THEN Ok(Unit)
                       ELSE run_command(command, out)
    /\ op' = name
    /\ input' = arg
    /\ args' = split_whitespace(command)
    /\ pc' = "done"
    /\ scan' = <<>>
    /\ NoLoop

play ==
    /\ pc = "idle"
    /\ UnitCall("play", None, <<"p", "l", "a", "y">>)

pause ==
    /\ pc = "idle"
    /\ UnitCall("pause", None, <<"p", "a", "u", "s", "e">>)

play_pause ==
    /\ pc = "idle"
    /\ UnitCall("play_pause", None, <<"p", "l", "a", "y", "-", "p", "a", "u", "s", "e">>)

stop ==
    /\ pc = "idle"
    /\ UnitCall("stop", None, <<"s", "t", "o", "p">>)

next ==
    /\ pc = "idle"
    /\ UnitCall("next", None, <<"n", "e", "x", "t">>)

previous ==
    /\ pc = "idle"
    /\ UnitCall("previous", None, <<"p", "r", "e", "v", "i", "o", "u", "s">>)

position ==
    /\ pc = "idle"
    /\ \E secs \in Floats : UnitCall("position", Some(secs), position_format(secs))

volume ==
    /\ pc = "idle"
    /\ \E percent \in Floats : UnitCall("volume", Some(percent), volume_format(percent))

StatusCommand == <<"s", "t", "a", "t", "u", "s">>

status ==
    /\ pc = "idle"
    /\ \E out \in Outcomes(StatusStdouts, StatusStdouts) :
          /\ captured' = out
          /\ result' = IF run_command(StatusCommand, out).kind = "Ok"
                       THEN status_match(run_command(StatusCommand, out).val)
                       ELSE run_command(StatusCommand, out)
    /\ op' = "status"
    /\ input' = None
    /\ args' = split_whitespace(StatusCommand)
    /\ pc' = "done"
    /\ scan' = <<>>
    /\ NoLoop

\* A call that runs one command and then goes through the lines of its output.
LoopCall(name, command, okOut, failOut) ==
    /\ op' = name
    /\ input' = None
    /\ args' = split_whitespace(command)
    /\ m' = EmptyMap
    /\ data' = EmptyMap
    /\ \E out \in Outcomes(okOut, failOut) :
          /\ captured' = out
          /\ IF run_command(command, out).kind = "Ok"
             THEN /\ scan' = lines(run_command(command, out).val)
                  /\ idx' = 1
                  /\ pc' = name
                  /\ result' = result
             ELSE /\ scan' = <<>>
                  /\ idx' = 0
                  /\ pc' = "done"
                  /\ result' = run_command(command, out)

GetPositionCommand ==
    <<"s", "t", "a", "t", "u", "s", " ", "-", "a", " ", "-", "f", " ", "{", "{", "p", "l", "a", "y", "e", "r", "N", "a", "m", "e", "}", "}", ";", "-", ";", "{", "{", "p", "o", "s", "i", "t", "i", "o", "n", "}", "}">>

\* get_position(): run_command and HashMap::new()
get_position ==
    /\ pc = "idle"
    /\ LoopCall("get_position", GetPositionCommand,
                Stdouts(PositionLines, MaxLines), Stdouts(PositionLines, 1))

\* get_position(): one turn of the loop
get_position_loop ==
    /\ pc = "get_position"
    /\ idx <= Len(scan)
    /\ IF get_position_line(m, scan[idx]).step = "return"
       THEN /\ result' = get_position_line(m, scan[idx]).err
            /\ pc' = "done"
            /\ NoLoop
            /\ scan' = scan
       ELSE /\ m' = get_position_line(m, scan[idx]).map
            /\ idx' = idx + 1
            /\ UNCHANGED <<pc, scan, data, result>>
    /\ UNCHANGED <<op, input, args, captured>>

\* get_position(): Ok(m)
get_position_return ==
    /\ pc = "get_position"
    /\ idx > Len(scan)
    /\ result' = Ok(m)
    /\ pc' = "done"
    /\ NoLoop
    /\ UNCHANGED <<op, input, args, captured, scan>>

MetadataCommand == <<"m", "e", "t", "a", "d", "a", "t", "a", " ", "-", "a">>

\* metadata() as a whole, when the invocation comes to `out`.
metadata_of(out) ==
    IF run_command(MetadataCommand, out).kind = "Ok"
    THEN metadata_fold(EmptyMap, lines(run_command(MetadataCommand, out).val))
    ELSE run_command(MetadataCommand, out)

\* metadata(): HashMap::new() and run_command
metadata ==
    /\ pc = "idle"
    /\ LoopCall("metadata", MetadataCommand,
                Stdouts(MetadataLines, MaxLines), Stdouts(MetadataLines, 1))

\* metadata(): one turn of the loop
metadata_loop ==
    /\ pc = "metadata"
    /\ idx <= Len(scan)
    /\ IF metadata_line(data, scan[idx]).step = "return"
       THEN /\ result' = metadata_line(data, scan[idx]).err
            /\ pc' = "done"
            /\ NoLoop
            /\ scan' = scan
       ELSE /\ data' = metadata_line(data, scan[idx]).map
            /\ idx' = idx + 1
            /\ UNCHANGED <<pc, scan, m, result>>
    /\ UNCHANGED <<op, input, args, captured>>

\* metadata(): Ok(data)
metadata_return ==
    /\ pc = "metadata"
    /\ idx > Len(scan)
    /\ result' = Ok(data)
    /\ pc' = "done"
    /\ NoLoop
    /\ UNCHANGED <<op, input, args, captured, scan>>

\* The caller is done with the result; every call is a round trip of its own.
next_call ==
    /\ pc = "done"
    /\ pc' = "idle"
    /\ op' = "none"
    /\ input' = None
    /\ args' = <<>>
    /\ captured' = IoFailure
    /\ result' = Ok(Unit)
    /\ scan' = <<>>
    /\ NoLoop

Next ==
    \/ play
    \/ pause
    \/ play_pause
    \/ stop
    \/ next
    \/ previous
    \/ position
    \/ volume
    \/ status
    \/ get_position
    \/ get_position_loop
    \/ get_position_return
    \/ metadata
    \/ metadata_loop
    \/ metadata_return
    \/ next_call

Spec == Init /\ [][Next]_vars
----------------------------------------------------------------------------
(* What the claims speak of *)

\* An operation has returned after an invocation that ran to its end.
Returned(name) == pc = "done" /\ op = name /\ ~captured.io

\* The same, and the exit status was success.
Succeeded(name) == Returned(name) /\ success(captured.status)

Operations ==
    { "play", "pause", "play_pause", "stop", "next", "previous", "position",
      "volume", "status", "get_position", "metadata" }

\* Text t is made of whitespace only.
RECURSIVE AllWhiteSpace(_)
AllWhiteSpace(t) ==
    \/ t = <<>>
    \/ \E w \in WhiteSpace : IsPrefix(w, t) /\ AllWhiteSpace(Drop(t, Len(w)))

\* Text t is word w with nothing but whitespace before and after it.
Surrounded(t, w) ==
    \E i \in 0..Len(t) :
        /\ i + Len(w) <= Len(t)
        /\ SubSeq(t, i + 1, i + Len(w)) = w
        /\ AllWhiteSpace(Take(t, i))
        /\ AllWhiteSpace(Drop(t, i + Len(w)))

\* The least member of a non-empty set of numbers.
Least(S) == CHOOSE i \in S : \A j \in S : i <= j

\* A line of get_position() read as the claims read it: the places where the
\* delimiter stands, the name before the first of them, the position text
\* after it.
DelimitersOf(l) == {k \in 1..Len(l) : k + 2 <= Len(l) /\ SubSeq(l, k, k + 2) = <<";", "-", ";">>}
HasDelimiter(l) == DelimitersOf(l) # {}
NameOf(l) == Take(l, Least(DelimitersOf(l)) - 1)
PositionOf(l) == Drop(l, Least(DelimitersOf(l)) + 2)

\* A text that writes an unsigned integer: decimal digits, at most a "+" before.
DigitsOf(t) == IF t # <<>> /\ Head(t) = "+" THEN Tail(t) ELSE t
UnsignedText(t) == DigitsOf(t) # <<>> /\ \A i \in 1..Len(DigitsOf(t)) : DigitsOf(t)[i] \in DecDigits

\* The same, and the integer fits 64 bits; the integer, as its numeral.
U64Text(t) == UnsignedText(t) /\ ~NumeralAbove(Numeral(DigitsOf(t)), U64Max)
ValueOf(t) == Numeral(DigitsOf(t))

\* A line of metadata() read as the claims read it: the player before the first
\* space; the rest without its leading whitespace; the key before the first
\* space of that; the value after it, without its leading whitespace.
SpacesOf(t) == {i \in 1..Len(t) : t[i] = " "}
LeadOf(t) ==
    CHOOSE n \in 0..Len(t) :
        /\ \A j \in 1..n : t[j] \in AsciiWhiteSpace
        /\ n < Len(t) => t[n + 1] \notin AsciiWhiteSpace
Unlead(t) == Drop(t, LeadOf(t))
LinePlayer(l) == Take(l, Least(SpacesOf(l)) - 1)
LineRest(l) == Unlead(Drop(l, Least(SpacesOf(l))))
LineSplits(l) == SpacesOf(l) # {} /\ SpacesOf(LineRest(l)) # {}
LineKey(l) == Take(LineRest(l), Least(SpacesOf(LineRest(l))) - 1)
LineValue(l) == Unlead(Drop(LineRest(l), Least(SpacesOf(LineRest(l)))))

\* The nine keys metadata() knows.
RecognizedKeys ==
    {K_artUrl, K_length, K_trackid, K_album, K_albumArtist, K_artist,
     K_contentCreated, K_title, K_url}

\* The typed fields of a record: the record without its raw mapping.
TypedFields(rec) == [rec EXCEPT !.raw = EmptyMap]

\* The scanned lines that survive both splits, by index.
Parsed == {i \in 1..Len(scan) : LineSplits(scan[i])}

\* The scanned lines that hold the delimiter, by index.
Delimited == {i \in 1..Len(scan) : HasDelimiter(scan[i])}

----------------------------------------------------------------------------
(* C1 *)

\* C1: for every public operation, once the invocation has run to its end with
\* a non-success exit status, the operation is over without entering a loop
\* over stdout, and it returned CommandError whose message holds the status
\* and ends with the stderr text, whatever stdout holds: no success value,
\* no ParseLengthError, no ParseUrlError.
C1_NonSuccessIsCommandError ==
    (op \in Operations /\ ~captured.io /\ ~success(captured.status)) =>
        /\ pc = "done"
        /\ scan = <<>>
        /\ result.kind = "CommandError"
        /\ IsSuffix(from_utf8_lossy(captured.stderr), result.val)
        /\ (Utf8Valid(captured.stderr) => IsSuffix(captured.stderr, result.val))
        /\ Find(result.val, DisplayStatus(captured.status)) # 0

\* C1, its case: metadata() met exit status 1 with a well-formed metadata line
\* on stdout and "No players found" on stderr.
C1_Witness ==
    /\ Returned("metadata")
    /\ captured.status = Exited(1)
    /\ captured.stdout = <<"p">> \o SP \o K_length \o SP \o <<"1", "2", "\n">>
    /\ captured.stderr = NoPlayersFound \o <<"\n">>
    /\ result.kind = "CommandError"

----------------------------------------------------------------------------
(* C2 *)

\* |x|
Magnitude(x) == [x EXCEPT !.neg = FALSE]

\* x >= 0 and x < 0, of which neither holds of NaN.
NonNegative(x) == x.class # "nan" /\ ~LtZero(x)
Negative(x) == LtZero(x)

\* C2: the token sent after `position` / `volume` is the magnitude of the
\* argument, written without a sign, followed by "+" for a non-negative
\* argument (zero included) and by "-" for a negative one.
C2_TokenIsMagnitudeThenSuffix ==
    (pc = "done" /\ op \in {"position", "volume"} /\ Unwrap(input).class # "nan") =>
        /\ Len(args) = 2
        /\ args[1] = (IF op = "position" THEN <<"p", "o", "s", "i", "t", "i", "o", "n">>
                      ELSE <<"v", "o", "l", "u", "m", "e">>)
        /\ NonNegative(Unwrap(input)) =>
               args[2] = DisplayF32(Magnitude(Unwrap(input))) \o <<"+">>
        /\ Negative(Unwrap(input)) =>
               args[2] = DisplayF32(Magnitude(Unwrap(input))) \o <<"-">>

----------------------------------------------------------------------------
(* C3 *)

C3_WitnessSkipped ==
    /\ Succeeded("get_position")
    /\ scan = << <<"j", "u", "n", "k">>, <<"q", ";", "-", ";", "7">> >>
    /\ result = Ok((<<"q">> :> <<"7">>))

----------------------------------------------------------------------------
(* C4 *)

\* A scanned metadata line whose URL does not decode: not the numeric failure
\* C4 is about.
UrlFails(i) ==
    /\ i \in Parsed
    /\ LineKey(scan[i]) \in {K_artUrl, K_url}
    /\ ~decode(LineValue(scan[i])).ok

C4_WitnessPosition ==
    /\ Succeeded("get_position")
    /\ scan = << <<"q", ";", "-", ";", "7">>, <<"p", ";", "-", ";", "x">> >>
    /\ result.kind = "ParseLengthError"

----------------------------------------------------------------------------
(* C5 *)

\* A scanned metadata line whose length does not parse.
LengthFails(i) ==
    /\ i \in Parsed
    /\ LineKey(scan[i]) = K_length
    /\ ~U64Text(LineValue(scan[i]))

----------------------------------------------------------------------------
(* C6 *)

\* C6 as claimed: every pair read from a line of a player is in the raw mapping
\* of the record of that player when metadata() returns its mapping.
C6_EveryPairRetained ==
    (Succeeded("metadata") /\ result.kind = "Ok") =>
        \A i \in Parsed :
            /\ LinePlayer(scan[i]) \in DOMAIN result.val
            /\ LineKey(scan[i]) \in DOMAIN result.val[LinePlayer(scan[i])].raw
            /\ result.val[LinePlayer(scan[i])].raw[LineKey(scan[i])] = LineValue(scan[i])

\* A later line of the same player with the same key.
Overwritten(i) ==
    \E j \in Parsed :
        /\ j > i
        /\ LinePlayer(scan[j]) = LinePlayer(scan[i])
        /\ LineKey(scan[j]) = LineKey(scan[i])

\* C6 as amended: when metadata() returns its mapping, the raw mapping of a
\* player has an entry for the key of every line read for that player, and the
\* entry is the value of that line as written (not percent-decoded), also for
\* a recognized key, unless a later line of the same player has the same key:
\* then the entry is the value of the last such line.
C6_RawKeepsLastPair ==
    (Succeeded("metadata") /\ result.kind = "Ok") =>
        \A i \in Parsed :
            /\ LinePlayer(scan[i]) \in DOMAIN result.val
            /\ LineKey(scan[i]) \in DOMAIN result.val[LinePlayer(scan[i])].raw
            /\ ~Overwritten(i) =>
                  result.val[LinePlayer(scan[i])].raw[LineKey(scan[i])] = LineValue(scan[i])

\* C6, its case: two lines of player p with key xesam:title; the raw mapping
\* returned holds the value of the second.
C6_Witness ==
    /\ Succeeded("metadata")
    /\ scan = << <<"p">> \o SP \o K_title \o SP \o <<"a", " ", "b">>,
                 <<"p">> \o SP \o K_title \o SP \o <<"c">> >>
    /\ result.kind = "Ok"
    /\ result.val[<<"p">>].raw = (K_title :> <<"c">>)

\* C6, another case: a recognized key whose typed field is the decoded value
\* and whose raw entry is the value as written.
C6_WitnessUndecoded ==
    /\ Succeeded("metadata")
    /\ result.kind = "Ok"
    /\ <<"p">> \in DOMAIN result.val
    /\ result.val[<<"p">>].xesam_url = Some(<<"a", " ", "b">>)
    /\ K_url \in DOMAIN result.val[<<"p">>].raw
    /\ result.val[<<"p">>].raw[K_url] = <<"a", "%", "2", "0", "b">>

----------------------------------------------------------------------------
(* C7 *)

HexUnits ==
    {"0", "1", "2", "3", "4", "5", "6", "7", "8", "9",
     "a", "b", "c", "d", "e", "f", "A", "B", "C", "D", "E", "F"}

\* A "%" of v that is not followed by two hexadecimal digits.
MalformedEscape(v) ==
    \E i \in 1..Len(v) :
        /\ v[i] = "%"
        /\ ~(i + 2 <= Len(v) /\ v[i + 1] \in HexUnits /\ v[i + 2] \in HexUnits)

\* C7: a value of mpris:artUrl or xesam:url with a malformed escape sequence,
\* or whose decoded bytes are not valid UTF-8, makes metadata() return
\* ParseUrlError (no line failing on its length being in the output).
C7_UndecodableUrlIsFatal ==
    (Succeeded("metadata") /\ \A j \in Parsed : ~LengthFails(j)) =>
        \A i \in Parsed :
            (/\ LineKey(scan[i]) \in {K_artUrl, K_url}
             /\ \/ MalformedEscape(LineValue(scan[i]))
                \/ ~Utf8Valid(decode_binary(LineValue(scan[i])))) =>
                result.kind = "ParseUrlError"

----------------------------------------------------------------------------
(* C8 *)

----------------------------------------------------------------------------
(* C9 *)

\* C9: status(), after a successful invocation, never fails; it returns Playing
\* exactly when stdout is "Playing" with nothing but whitespace around it,
\* Paused exactly when it is "Paused" so surrounded, and Stopped for every
\* other text; parsing the text again gives the result returned.
C9_StatusOfTrimmedText ==
    Succeeded("status") =>
        /\ result.kind = "Ok"
        /\ result.val \in {"Playing", "Paused", "Stopped"}
        /\ result.val = "Playing" <=>
              Surrounded(from_utf8_lossy(captured.stdout), <<"P", "l", "a", "y", "i", "n", "g">>)
        /\ result.val = "Paused" <=>
              Surrounded(from_utf8_lossy(captured.stdout), <<"P", "a", "u", "s", "e", "d">>)
        /\ status_match(from_utf8_lossy(captured.stdout)) = result

\* C9, its case: "Playing" between spaces, a tab and a line ending.
C9_Witness ==
    /\ Succeeded("status")
    /\ captured.stdout = <<" ", "\t", "P", "l", "a", "y", "i", "n", "g", " ", "\r", "\n">>
    /\ result = Ok("Playing")

\* C9, another case: a text that is neither word gives Stopped.
C9_WitnessStopped ==
    /\ Succeeded("status")
    /\ captured.stdout = <<"P", "l", "a", "y", "i", "n", "g", " ", "x", "\n">>
    /\ result = Ok("Stopped")

----------------------------------------------------------------------------
(* C10 *)

\* The lines playerctl wrote: stdout cut at its line feeds, nothing trimmed.
Written == lines(from_utf8_lossy(captured.stdout))

\* The orders in which n lines can stand.
Orders(n) == {f \in [1..n -> 1..n] : \A i, j \in 1..n : f[i] = f[j] => i = j}

\* C10: when the lines written all read as player, key and value and belong
\* to different players, metadata() returns what it returns for the same lines
\* written in any other order: the same mapping or the same failure.
C10_LineOrderIrrelevant ==
    (/\ Succeeded("metadata")
     /\ \A i \in 1..Len(Written) : LineSplits(Written[i])
     /\ \A i, j \in 1..Len(Written) :
           LinePlayer(Written[i]) = LinePlayer(Written[j]) => i = j) =>
        \A f \in Orders(Len(Written)) :
            metadata_of(Completed(captured.status,
                                  StdoutOf([i \in 1..Len(Written) |-> Written[f[i]]]),
                                  captured.stderr)) = result

\* C10, the two orders of one output: with the line of p last, its trailing
\* space is trimmed away, the line fails the second split and p has no record;
\* with the line of p first, p has a record whose raw mapping holds foo.
C10_LastLineTrimmed ==
    /\ Succeeded("metadata")
    /\ Written = << <<"q">> \o SP \o K_title \o SP \o <<"c">>, <<"p", " ", "f", "o", "o", " ">> >>
    /\ result.kind = "Ok"
    /\ DOMAIN result.val = {<<"q">>}

C10_SameLineFirst ==
    /\ Succeeded("metadata")
    /\ Written = << <<"p", " ", "f", "o", "o", " ">>, <<"q">> \o SP \o K_title \o SP \o <<"c">> >>
    /\ result.kind = "Ok"
    /\ DOMAIN result.val = {<<"p">>, <<"q">>}
    /\ result.val[<<"p">>].raw = (<<"f", "o", "o">> :> <<>>)

====
